---- MODULE Spec2Model ----
(***************************************************************************)
(* Acquisition / aggregation / merge pipeline of water-resource-etl.       *)
(*                                                                         *)
(*   src/etl_script.py       the batch script (backfill or daily update)   *)
(*   src/web/backend/app.py  the Flask backend (load_data, update-data)    *)
(*                                                                         *)
(* A DataFrame is [cols, rows]: cols is the set of column labels, rows the *)
(* sequence of rows in positional order.  A row is [ts, rec]: ts the index *)
(* label (hours since day 0, 00:00) and rec the cells that hold a value    *)
(* (a column of cols that is not in DOMAIN rec is NaN in that row).        *)
(* Values are in units of 1e-4 (the code rounds to 4 decimals).            *)
(***************************************************************************)
EXTENDS Integers, Sequences, FiniteSets, TLC

(* ------------------------------ bounds --------------------------------- *)

\* failures over a behaviour: a fetch that fails or a to_csv that raises
MaxFailures == 1
\* runs (of the script's main, or requests to update-data) over a behaviour
MaxRuns == 2
\* days of the backfill window (the script uses range(89, 0, -1))
BackfillDays == 1

(* --------------------------- program constants -------------------------- *)

\* the categories, in the positional order of urls_data / groups_cols_ids
\* (the first two of the four; every loop of the code treats all alike)
SensorTypes == <<"reservoir", "gauge">>

NumTypes == Len(SensorTypes)

Categories == {SensorTypes[i] : i \in 1..NumTypes}

\* the buckets as they would be with one every four hours
HoursEveryFour == <<0, 4, 8, 12, 16, 20>>

\* hours of the day's buckets
Hours == <<0, 6, 12, 18>>

NumHours == Len(Hours)

\* datetime.now(), in days since day 0; the last complete day is Today - 1
Today == BackfillDays + 1

\* sensor_id column of the category metadata files
MetadataIds == [c \in Categories |-> {"E01"}]

(* ------------------------------ data model ------------------------------ *)

EmptyRec == [s \in {} |-> 0]

Row(t, r) == [ts |-> t, rec |-> r]

\* pd.DataFrame(columns=cols)
DataFrame(cols) == [cols |-> cols, rows |-> <<>>]

\* pd.DataFrame()
EmptyFrame == DataFrame({})

\* df.empty
IsEmpty(df) == Len(df.rows) = 0 \/ df.cols = {}

\* get_data_async returning None
None == [ok |-> FALSE, sensors |-> <<>>]

\* a 200 response with the given "sensors" list
Json(sensors) == [ok |-> TRUE, sensors |-> sensors]

Entry(id, obs) == [sensor |-> id, observations |-> obs]

\* bodies the upstream API may serve for a bucket: two readings of E01;
\* one reading of E02 and E01 not listed; E01 listed without a reading
BodyA == Json(<<Entry("E01", <<100000, 120000>>)>>)

BodyB == Json(<<Entry("E02", <<500000>>)>>)

BodyQuiet == Json(<<Entry("E01", <<>>)>>)

\* what the API serves for the buckets of a day: the two bodies with
\* readings in turn, E01 missing all day, or no reading all day
Upstreams ==
    { [i \in 1..NumHours |-> IF i % 2 = 1 THEN BodyA ELSE BodyB],
      [i \in 1..NumHours |-> BodyB],
      [i \in 1..NumHours |-> BodyQuiet] }

\* a file that does not exist
NoFile == [exists |-> FALSE, cols |-> {}, rows |-> <<>>]

\* df.to_csv(path): the index and the columns, row by row
ToCsv(df) == [exists |-> TRUE, cols |-> df.cols, rows |-> df.rows]

\* pd.read_csv(path, parse_dates=[0], index_col=0)
ReadCsv(f) == [cols |-> f.cols, rows |-> f.rows]

\* what a to_csv that raised may leave behind: the file as it was (the open
\* failed), or the file truncated by the open and filled up to some row
FailedWrites(old, df) ==
    {old} \cup {[exists |-> TRUE, cols |-> df.cols, rows |-> SubSeq(df.rows, 1, k)] :
                   k \in 0..(Len(df.rows) - 1)}

\* contents of ./dataset/<type>_sensors_reads.csv the script may find: an
\* ascending series that ends with the first bucket of the last complete
\* day, and an unsorted one with a duplicated label
InitSeries ==
    { [cols |-> {"E01"},
       rows |-> <<Row((Today - 1) * 24 - 6, [E01 |-> 70000]),
                  Row((Today - 1) * 24, [E01 |-> 70000])>>],
      [cols |-> {"E01"},
       rows |-> <<Row((Today - 1) * 24 - 6, [E01 |-> 80000]),
                  Row((Today - 1) * 24 - 12, [E01 |-> 70000]),
                  Row((Today - 1) * 24 - 6, [E01 |-> 90000])>>] }

InitFiles == {NoFile} \cup {ToCsv(df) : df \in InitSeries}

(* --------------------- aggregation of one day's buckets ----------------- *)

RECURSIVE Sum(_)
Sum(obs) == IF obs = <<>> THEN 0 ELSE Head(obs) + Sum(Tail(obs))

\* n / d rounded to the nearest integer, halves to the even neighbour
RoundHalfEven(n, d) ==
    LET q == n \div d
        r == n % d
    IN  IF 2 * r < d THEN q
        ELSE IF 2 * r > d THEN q + 1
        ELSE IF q % 2 = 0 THEN q ELSE q + 1

\* np.mean([float(obs["value"]) ...]).round(4)
Mean(obs) == RoundHalfEven(Sum(obs), Len(obs))

HasRow(df, t) == \E i \in 1..Len(df.rows) : df.rows[i].ts = t

\* df.loc[tr, sensor_id] = value, enlarging the frame by the row and the
\* column when they are missing
SetLoc(df, tr, id, value) ==
    LET set(r) == [s \in (DOMAIN r) \cup {id} |-> IF s = id THEN value ELSE r[s]]
    IN  [cols |-> df.cols \cup {id},
         rows |-> IF HasRow(df, tr)
                  THEN [i \in 1..Len(df.rows) |->
                           IF df.rows[i].ts = tr
                           THEN Row(tr, set(df.rows[i].rec))
                           ELSE df.rows[i]]
                  ELSE Append(df.rows, Row(tr, set(EmptyRec)))]

\* the loop over data_day["sensors"] as it would be if a sensor listed
\* without observations were given the value 0
RECURSIVE ProcessSensorsZeroFill(_, _, _, _)
ProcessSensorsZeroFill(df, tr, sensors, k) ==
    IF k > Len(sensors) THEN df
    ELSE LET sensor == sensors[k]
             value == IF sensor.observations # <<>>
                      THEN Mean(sensor.observations) ELSE 0
         IN  ProcessSensorsZeroFill(SetLoc(df, tr, sensor.sensor, value),
                                    tr, sensors, k + 1)

\* the loop over data_day["sensors"] for one bucket, from entry k on
RECURSIVE ProcessSensors(_, _, _, _)
ProcessSensors(df, tr, sensors, k) ==
    IF k > Len(sensors) THEN df
    ELSE LET sensor == sensors[k]
         IN  IF sensor.observations # <<>>
             THEN ProcessSensors(SetLoc(df, tr, sensor.sensor, Mean(sensor.observations)),
                                 tr, sensors, k + 1)
             ELSE ProcessSensors(df, tr, sensors, k + 1)

\* the loop over zip(time_ranges, results) as it would be if a failed fetch
\* ended it: the buckets after the failed one are not aggregated
RECURSIVE ProcessResultsUntilFailure(_, _, _, _)
ProcessResultsUntilFailure(df, time_ranges, res, i) ==
    IF i > Len(time_ranges) \/ ~res[i].ok THEN df
    ELSE ProcessResultsUntilFailure(
             IF res[i].sensors # <<>>
             THEN ProcessSensors(df, time_ranges[i], res[i].sensors, 1) ELSE df,
             time_ranges, res, i + 1)

\* the loop over zip(time_ranges, results), from bucket i on
RECURSIVE ProcessResults(_, _, _, _)
ProcessResults(df, time_ranges, res, i) ==
    IF i > Len(time_ranges) THEN df
    ELSE LET data_day == res[i]
         IN  IF data_day.ok /\ data_day.sensors # <<>>
             THEN ProcessResults(ProcessSensors(df, time_ranges[i], data_day.sensors, 1),
                                 time_ranges, res, i + 1)
             ELSE ProcessResults(df, time_ranges, res, i + 1)

\* read_date_dt.replace(hour=i, ...) for i in [0, 6, 12, 18]
TimeRanges(read_date) == [i \in 1..NumHours |-> read_date * 24 + Hours[i]]

(* ------------------------------- the merge ------------------------------ *)

\* pd.concat([a, b], axis=0, join="inner"): what the concatenation would be
\* over the columns the two frames share
ConcatInner(a, b) ==
    LET shared == a.cols \cap b.cols
        cut(r) == Row(r.ts, [s \in (DOMAIN r.rec) \cap shared |-> r.rec[s]])
        rows == a.rows \o b.rows
    IN  [cols |-> shared, rows |-> [i \in 1..Len(rows) |-> cut(rows[i])]]

\* pd.concat([a, b], axis=0): the rows of b after the rows of a, over the
\* union of the columns
Concat(a, b) == [cols |-> a.cols \cup b.cols, rows |-> a.rows \o b.rows]

\* pd.concat(dfs, axis=0) of a list of frames
RECURSIVE ConcatAll(_)
ConcatAll(dfs) ==
    IF Len(dfs) = 1 THEN dfs[1] ELSE Concat(dfs[1], ConcatAll(Tail(dfs)))

\* index.is_monotonic_decreasing
IsMonotonicDecreasing(rows) ==
    \A i \in 1..(Len(rows) - 1) : rows[i].ts >= rows[i + 1].ts

\* the orders in which an argsort by descending label may list the
\* positions S: any position holding the largest label may come first
RECURSIVE DescendingOrders(_, _)
DescendingOrders(rows, S) ==
    IF S = {} THEN {<<>>}
    ELSE LET labels == {rows[j].ts : j \in S}
             largest == CHOOSE t \in labels : \A u \in labels : t >= u
         IN  UNION { {<<i>> \o rest : rest \in DescendingOrders(rows, S \ {i})} :
                     i \in {j \in S : rows[j].ts = largest} }

\* df.sort_index(ascending=False) with the default kind="quicksort": a frame
\* whose index already descends is returned as it is; otherwise the rows
\* are reordered by an argsort that is not stable, so rows with equal labels
\* may come out in any order
SortIndexDescending(df) ==
    IF IsMonotonicDecreasing(df.rows) THEN {df}
    ELSE { [cols |-> df.cols, rows |-> [k \in 1..Len(o) |-> df.rows[o[k]]]] :
             o \in DescendingOrders(df.rows, 1..Len(df.rows)) }

\* df.drop_duplicates(): what the filter would be if it compared the rows'
\* values instead of their labels
DropDuplicatedValues(df) ==
    LET keep(i) == \A j \in 1..(i - 1) : df.rows[j].rec # df.rows[i].rec
    IN  [cols |-> df.cols,
         rows |-> SelectSeq(df.rows, LAMBDA r : \E i \in 1..Len(df.rows) :
                                          df.rows[i] = r /\ keep(i))]

\* df[~df.index.duplicated(keep="first")]
DropDuplicated(df) ==
    LET keep(i) == \A j \in 1..(i - 1) : df.rows[j].ts # df.rows[i].ts
        RECURSIVE from(_)
        from(i) == IF i > Len(df.rows) THEN <<>>
                   ELSE IF keep(i) THEN <<df.rows[i]>> \o from(i + 1)
                   ELSE from(i + 1)
    IN  [cols |-> df.cols, rows |-> from(1)]

\* concat, sort_index(ascending=False), drop the duplicated labels: the
\* frames the three statements may produce
Merge(old, new) ==
    {DropDuplicated(s) : s \in SortIndexDescending(Concat(old, new))}

(* -------------------------------- state --------------------------------- *)

VARIABLES
    upstream,             \* what the sensor API serves for each bucket of a day
    dataset,              \* ./dataset/<type>_sensors_reads.csv
    output,               \* output/sensor_data/<type>_sensors_reads.csv
    metadata_out,         \* output/metadata/<type>_sensors_metadata.csv ({}: no file)
    server_up,            \* the backend module has been imported
    sensor_data,          \* backend global sensor_data
    sensor_metadata,      \* backend global sensor_metadata
    pc,                   \* position of the run in progress
    mode,                 \* "none", "backfill", "daily" (script) or "post" (endpoint)
    d,                    \* loop variable of the backfill loop
    read_date,            \* read_date_dt, in days
    cat,                  \* position in the loop over the categories
    groups_cols_ids,
    tasks,                \* the coroutines handed to asyncio.gather
    results,              \* what they returned
    all_dfs_sensors_day,
    list_all_data,
    list_all_old_data,
    failures,             \* fetches and writes that failed so far
    runs,                 \* runs started so far
    fetch_log,            \* history: [tasks, results] of each category of the day
    merged,               \* history: the merges of the run, [done, old, new, res]
    prior,                \* history: the persisted file the run's existing series is from
    write_log,            \* history: the to_csv calls of the run, [status, before, df]
    saved,                \* history: the file a run of the script last saved in full
    cache,                \* backend cache: the memoized answers of SensorData.get
    response,             \* history: the answer to the last read since the last run
    updated               \* history: an update-data request that ended well merged the category

vars == <<upstream, dataset, output, metadata_out, server_up, sensor_data,
          sensor_metadata, pc, mode, d, read_date, cat, groups_cols_ids, tasks,
          results, all_dfs_sensors_day, list_all_data, list_all_old_data,
          failures, runs, fetch_log, merged,
          prior, write_log, saved, cache, response, updated>>

env == <<upstream, dataset>>

server == <<server_up, sensor_data, sensor_metadata>>

counters == <<runs>>

http == <<cache, response, updated>>

NoTasks == [i \in 1..NumHours |-> "none"]

NoResults == [i \in 1..NumHours |-> None]

NoMerge == [done |-> FALSE, old |-> EmptyFrame, new |-> EmptyFrame, res |-> EmptyFrame]

NoWrite == [status |-> "none", before |-> NoFile, df |-> EmptyFrame]

NoFrames == [c \in Categories |-> EmptyFrame]

NoLists == [c \in Categories |-> <<>>]

\* the body of SensorData.get: the index formatted to the second (one string
\* per label, so the label stands for it) and, for every column, its cells
\* with NaN replaced by None (<<>>: None, <<v>>: the value v)
ToTimeSeries(df) ==
    [timestamps |-> [i \in 1..Len(df.rows) |-> df.rows[i].ts],
     sensors |-> [s \in df.cols |->
                     [i \in 1..Len(df.rows) |->
                         IF s \in DOMAIN df.rows[i].rec
                         THEN <<df.rows[i].rec[s]>> ELSE <<>>]]]

NoEntry == [hit |-> FALSE, body |-> ToTimeSeries(EmptyFrame)]

NoResponse == [cat |-> "none", status |-> 0, body |-> ToTimeSeries(EmptyFrame)]

TypeIndex(c) == CHOOSE i \in 1..NumTypes : SensorTypes[i] = c

Init ==
    /\ upstream \in Upstreams
    /\ dataset \in [Categories -> InitFiles]
    /\ output = [c \in Categories |-> NoFile]
    /\ metadata_out = [c \in Categories |-> {}]
    /\ server_up = FALSE
    /\ sensor_data = NoFrames
    /\ sensor_metadata = [c \in Categories |-> {}]
    /\ pc = "idle"
    /\ mode = "none"
    /\ d = 0
    /\ read_date = 0
    /\ cat = 1
    /\ groups_cols_ids = [i \in 1..NumTypes |-> {}]
    /\ tasks = NoTasks
    /\ results = NoResults
    /\ all_dfs_sensors_day = <<>>
    /\ list_all_data = NoLists
    /\ list_all_old_data = NoFrames
    /\ failures = 0
    /\ runs = 0
    /\ fetch_log = <<>>
    /\ merged = [c \in Categories |-> NoMerge]
    /\ prior = [c \in Categories |-> NoFile]
    /\ write_log = [c \in Categories |-> NoWrite]
    /\ saved = [c \in Categories |-> NoFile]
    /\ cache = [c \in Categories |-> NoEntry]
    /\ response = NoResponse
    /\ updated = [c \in Categories |-> FALSE]

(* ------------------- get_sensors_data_day_async (both files) ------------ *)

\* lines 54-65: the frame of the category is created, one coroutine per
\* bucket is built and all are handed to asyncio.gather, which starts them
Gather ==
    /\ pc = "session"
    /\ tasks' = [i \in 1..NumHours |-> "inflight"]
    /\ results' = NoResults
    /\ pc' = "gather"
    /\ UNCHANGED <<http, saved, env, output, metadata_out, server, mode, d, read_date, cat,
                   groups_cols_ids, all_dfs_sensors_day, list_all_data,
                   list_all_old_data, failures, counters,
                   fetch_log, merged, prior, write_log>>

\* gather stores every result at the position of its coroutine, so the
\* order in which the requests complete does not show in results: the
\* completions are taken in the order of the tasks
Completes(i) ==
    /\ tasks[i] = "inflight"
    /\ \A j \in 1..(i - 1) : tasks[j] \in {"done", "failed"}

\* get_data_async, status 200: the body is returned
FetchOk(i) ==
    /\ pc = "gather"
    /\ Completes(i)
    /\ tasks' = [tasks EXCEPT ![i] = "done"]
    /\ results' = [results EXCEPT ![i] = upstream[i]]
    /\ UNCHANGED <<http, saved, env, output, metadata_out, server, pc, mode, d, read_date, cat,
                   groups_cols_ids, all_dfs_sensors_day, list_all_data,
                   list_all_old_data, failures, counters,
                   fetch_log, merged, prior, write_log>>

\* get_data_async, another status or an exception: None is returned; the
\* sibling coroutines are not touched
FetchFail(i) ==
    /\ pc = "gather"
    /\ Completes(i)
    /\ failures < MaxFailures
    /\ failures' = failures + 1
    /\ tasks' = [tasks EXCEPT ![i] = "failed"]
    /\ results' = [results EXCEPT ![i] = None]
    /\ UNCHANGED <<http, saved, env, output, metadata_out, server, pc, mode, d, read_date, cat,
                   groups_cols_ids, all_dfs_sensors_day, list_all_data,
                   list_all_old_data, counters,
                   fetch_log, merged, prior, write_log>>

\* where get_sensors_data_day_async returns to
Caller == CASE mode = "backfill" -> "append"
            [] mode = "daily" -> "combine"
            [] OTHER -> "update"

\* asyncio.wait(tasks, return_when=FIRST_COMPLETED): what the await would
\* be if it returned with the first coroutine
FirstCompleted == \E i \in 1..NumHours : tasks[i] \in {"done", "failed"}

\* line 65, await asyncio.gather(*tasks): returns when every coroutine has
GatherReturned == \A i \in 1..NumHours : tasks[i] \in {"done", "failed"}

\* lines 65-76: gather returns when every coroutine has, the results are
\* aggregated into the frame of the category and the loop moves on
Process ==
    /\ pc = "gather"
    /\ GatherReturned
    /\ LET df_sensor_data_day ==
               ProcessResults(DataFrame(groups_cols_ids[cat]), TimeRanges(read_date),
                              results, 1)
       IN  all_dfs_sensors_day' = Append(all_dfs_sensors_day, df_sensor_data_day)
    /\ fetch_log' = Append(fetch_log, [tasks |-> tasks, results |-> results])
    /\ tasks' = NoTasks
    /\ results' = NoResults
    /\ IF cat < NumTypes
       THEN /\ cat' = cat + 1
            /\ pc' = "session"
       ELSE /\ cat' = 1
            /\ pc' = Caller
    /\ UNCHANGED <<http, saved, env, output, metadata_out, server, mode, d, read_date,
                   groups_cols_ids, list_all_data, list_all_old_data, failures,
                   counters, merged, prior, write_log>>

(* ------------------------- etl_script.py: main -------------------------- *)

\* the per-run variables as a run finds them
StartRun ==
    /\ cat' = 1
    /\ tasks' = NoTasks
    /\ results' = NoResults
    /\ all_dfs_sensors_day' = <<>>
    /\ list_all_data' = NoLists
    /\ fetch_log' = <<>>
    /\ merged' = [c \in Categories |-> NoMerge]
    /\ write_log' = [c \in Categories |-> NoWrite]
    /\ response' = NoResponse

\* lines 97-125: the metadata is loaded and copied to the output directory;
\* the existing series are read when the first category's file exists
\* (read_csv raises when a later one is missing), else a backfill starts
ScriptStart ==
    /\ pc = "idle"
    /\ runs < MaxRuns
    /\ runs' = runs + 1
    /\ StartRun
    /\ metadata_out' = MetadataIds
    /\ groups_cols_ids' = [i \in 1..NumTypes |-> MetadataIds[SensorTypes[i]]]
    /\ prior' = dataset
    /\ IF dataset[SensorTypes[1]].exists
       THEN /\ mode' = "daily"
            /\ d' = 0
            /\ read_date' = Today - 1
            /\ IF \A c \in Categories : dataset[c].exists
               THEN /\ list_all_old_data' = [c \in Categories |-> ReadCsv(dataset[c])]
                    /\ pc' = "session"
               ELSE /\ list_all_old_data' = NoFrames
                    /\ pc' = "crashed"
       ELSE /\ mode' = "backfill"
            /\ d' = BackfillDays
            /\ read_date' = Today - BackfillDays
            /\ list_all_old_data' = NoFrames
            /\ pc' = "session"
    /\ UNCHANGED <<env, output, server, failures, saved, cache, updated>>

\* lines 80-95 and 99: a to_csv of load_metadata raises at the k-th
\* category; the files before it are written, its own file is left as it
\* was or without a row, and main ends there
LoadMetadataFail ==
    /\ pc = "idle"
    /\ runs < MaxRuns
    /\ runs' = runs + 1
    /\ failures < MaxFailures
    /\ failures' = failures + 1
    /\ StartRun
    /\ \E k \in 1..NumTypes : \E left \in {{}, metadata_out[SensorTypes[k]]} :
          metadata_out' = [c \in Categories |->
                              IF TypeIndex(c) < k THEN MetadataIds[c]
                              ELSE IF TypeIndex(c) = k THEN left
                              ELSE metadata_out[c]]
    /\ pc' = "crashed"
    /\ UNCHANGED <<cache, updated, saved, env, output, server, mode, d, read_date, groups_cols_ids,
                   list_all_old_data, prior>>

\* lines 135-138: the day's frames are appended to the per-category lists;
\* after the last day each list is concatenated
BackfillAppend ==
    /\ pc = "append"
    /\ LET lists == [c \in Categories |->
                        Append(list_all_data[c], all_dfs_sensors_day[TypeIndex(c)])]
       IN  /\ list_all_data' = lists
           /\ IF d > 1
              THEN /\ d' = d - 1
                   /\ read_date' = Today - (d - 1)
                   /\ pc' = "session"
                   /\ UNCHANGED list_all_old_data
              ELSE /\ list_all_old_data' = [c \in Categories |-> ConcatAll(lists[c])]
                   /\ pc' = "save"
                   /\ UNCHANGED <<d, read_date>>
    /\ all_dfs_sensors_day' = <<>>
    /\ fetch_log' = <<>>
    /\ UNCHANGED <<http, saved, env, output, metadata_out, server, mode, cat, groups_cols_ids,
                   tasks, results, failures, counters, merged,
                   prior, write_log>>

\* lines 146-159: every category's existing series is concatenated with the
\* day's frame, sorted by descending index and stripped of duplicated labels
Combine ==
    /\ pc = "combine"
    /\ LET outcomes == [c \in Categories |->
                            Merge(list_all_old_data[c],
                                  all_dfs_sensors_day[TypeIndex(c)])]
       IN  \E new_data \in [Categories -> UNION {outcomes[c] : c \in Categories}] :
          /\ \A c \in Categories : new_data[c] \in outcomes[c]
          /\ list_all_old_data' = new_data
          /\ merged' = [c \in Categories |->
                           [done |-> TRUE,
                            old |-> list_all_old_data[c],
                            new |-> all_dfs_sensors_day[TypeIndex(c)],
                            res |-> new_data[c]]]
    /\ pc' = "save"
    /\ UNCHANGED <<http, saved, env, output, metadata_out, server, mode, d, read_date, cat,
                   groups_cols_ids, tasks, results, all_dfs_sensors_day,
                   list_all_data, failures, counters, fetch_log,
                   prior, write_log>>

\* lines 163-169, one iteration: the category's frame is written
SaveOk ==
    /\ pc = "save"
    /\ LET c == SensorTypes[cat]
       IN  /\ output' = [output EXCEPT ![c] = ToCsv(list_all_old_data[c])]
           /\ write_log' = [write_log EXCEPT ![c] =
                               [status |-> "ok", before |-> output[c],
                                df |-> list_all_old_data[c]]]
           /\ saved' = [saved EXCEPT ![c] = ToCsv(list_all_old_data[c])]
    /\ IF cat < NumTypes
       THEN /\ cat' = cat + 1
            /\ pc' = "save"
       ELSE /\ cat' = 1
            /\ pc' = "stats"
    /\ UNCHANGED <<http, env, metadata_out, server, mode, d, read_date, groups_cols_ids,
                   tasks, results, all_dfs_sensors_day, list_all_data,
                   list_all_old_data, failures, counters,
                   fetch_log, merged, prior>>

\* lines 163-169, one iteration: to_csv raises; nothing in main catches it
SaveFail ==
    /\ pc = "save"
    /\ failures < MaxFailures
    /\ failures' = failures + 1
    /\ LET c == SensorTypes[cat]
       IN  \E f \in FailedWrites(output[c], list_all_old_data[c]) :
              /\ output' = [output EXCEPT ![c] = f]
              /\ write_log' = [write_log EXCEPT ![c] =
                                  [status |-> "failed", before |-> output[c],
                                   df |-> list_all_old_data[c]]]
    /\ pc' = "crashed"
    /\ UNCHANGED <<http, saved, env, metadata_out, server, mode, d, read_date, cat,
                   groups_cols_ids, tasks, results, all_dfs_sensors_day,
                   list_all_data, list_all_old_data, counters, fetch_log,
                   merged, prior>>

\* lines 171-176: index[0] of an empty first frame raises IndexError
Statistics ==
    /\ pc = "stats"
    /\ pc' = IF Len(list_all_old_data[SensorTypes[1]].rows) = 0
             THEN "crashed" ELSE "done"
    /\ UNCHANGED <<http, saved, env, output, metadata_out, server, mode, d, read_date, cat,
                   groups_cols_ids, tasks, results, all_dfs_sensors_day,
                   list_all_data, list_all_old_data, failures,
                   counters, fetch_log, merged, prior, write_log>>

\* the process exits, or the request is answered
Finish ==
    /\ pc \in {"done", "crashed", "aborted"}
    /\ pc' = "idle"
    /\ mode' = "none"
    /\ d' = 0
    /\ read_date' = 0
    /\ cat' = 1
    /\ groups_cols_ids' = [i \in 1..NumTypes |-> {}]
    /\ tasks' = NoTasks
    /\ results' = NoResults
    /\ all_dfs_sensors_day' = <<>>
    /\ list_all_data' = NoLists
    /\ list_all_old_data' = NoFrames
    /\ fetch_log' = <<>>
    /\ merged' = [c \in Categories |-> NoMerge]
    /\ prior' = [c \in Categories |-> NoFile]
    /\ write_log' = [c \in Categories |-> NoWrite]
    /\ updated' = [c \in Categories |->
                       updated[c] \/ (mode = "post" /\ pc = "done" /\ merged[c].done)]
    /\ UNCHANGED <<cache, response, saved, env, output, metadata_out, server, failures,
                   counters>>

(* ----------------------------- backend/app.py --------------------------- *)

\* lines 137-184: load_data at import; a missing or unreadable file gives
\* an empty frame
ServerStart ==
    /\ pc = "idle"
    /\ ~server_up
    /\ server_up' = TRUE
    /\ sensor_data' = [c \in Categories |->
                          IF output[c].exists /\ output[c].cols # {}
                          THEN ReadCsv(output[c]) ELSE EmptyFrame]
    /\ sensor_metadata' = metadata_out
    /\ UNCHANGED <<http, saved, env, output, metadata_out, pc, mode, d, read_date, cat,
                   groups_cols_ids, tasks, results, all_dfs_sensors_day,
                   list_all_data, list_all_old_data, failures,
                   counters, fetch_log, merged, prior, write_log>>

\* lines 256-284: the sensor ids are taken from the metadata; with none at
\* all the request is aborted, else yesterday's buckets are fetched
PostStart ==
    /\ pc = "idle"
    /\ server_up
    /\ runs < MaxRuns
    /\ runs' = runs + 1
    /\ StartRun
    /\ mode' = "post"
    /\ d' = 0
    /\ prior' = output
    /\ LET ids == [i \in 1..NumTypes |-> sensor_metadata[SensorTypes[i]]]
       IN  /\ groups_cols_ids' = ids
           /\ IF \A i \in 1..NumTypes : ids[i] = {}
              THEN /\ pc' = "aborted"
                   /\ read_date' = 0
              ELSE /\ pc' = "session"
                   /\ read_date' = Today - 1
    /\ UNCHANGED <<env, output, metadata_out, server, list_all_old_data, failures,
                   saved, cache, updated>>

NextUpdate ==
    IF cat < NumTypes
    THEN /\ cat' = cat + 1
         /\ pc' = "update"
    ELSE /\ cat' = 1
         /\ pc' = "done"

\* lines 287-302, one iteration with an empty frame: nothing is done
UpdateSkip ==
    /\ pc = "update"
    /\ IsEmpty(all_dfs_sensors_day[cat])
    /\ NextUpdate
    /\ UNCHANGED <<http, saved, env, output, metadata_out, server, mode, d, read_date,
                   groups_cols_ids, tasks, results, all_dfs_sensors_day,
                   list_all_data, list_all_old_data, failures,
                   counters, fetch_log, merged, prior, write_log>>

\* lines 287-300, one iteration: the day's frame is written to the file of
\* the category, then merged into the in-memory series
UpdateOk ==
    /\ pc = "update"
    /\ LET c == SensorTypes[cat]
           df_sensor == all_dfs_sensors_day[cat]
       IN  /\ ~IsEmpty(df_sensor)
           /\ output' = [output EXCEPT ![c] = ToCsv(df_sensor)]
           /\ write_log' = [write_log EXCEPT ![c] =
                               [status |-> "ok", before |-> output[c], df |-> df_sensor]]
           /\ \E res \in Merge(sensor_data[c], df_sensor) :
                 /\ sensor_data' = [sensor_data EXCEPT ![c] = res]
                 /\ merged' = [merged EXCEPT ![c] =
                                  [done |-> TRUE, old |-> sensor_data[c],
                                   new |-> df_sensor, res |-> res]]
    /\ NextUpdate
    /\ UNCHANGED <<http, saved, env, metadata_out, server_up, sensor_metadata, mode, d, read_date,
                   groups_cols_ids, tasks, results, all_dfs_sensors_day,
                   list_all_data, list_all_old_data, failures,
                   counters, fetch_log, prior>>

\* lines 287-294 and 306-310, one iteration: to_csv raises, the handler
\* catches it outside the loop and answers 500
UpdateFail ==
    /\ pc = "update"
    /\ failures < MaxFailures
    /\ failures' = failures + 1
    /\ LET c == SensorTypes[cat]
           df_sensor == all_dfs_sensors_day[cat]
       IN  /\ ~IsEmpty(df_sensor)
           /\ \E f \in FailedWrites(output[c], df_sensor) :
                 /\ output' = [output EXCEPT ![c] = f]
                 /\ write_log' = [write_log EXCEPT ![c] =
                                     [status |-> "failed", before |-> output[c],
                                      df |-> df_sensor]]
    /\ pc' = "aborted"
    /\ UNCHANGED <<http, saved, env, metadata_out, server, mode, d, read_date, cat,
                   groups_cols_ids, tasks, results, all_dfs_sensors_day,
                   list_all_data, list_all_old_data, counters, fetch_log,
                   merged, prior>>

\* lines 207-232, GET /<sensor_type>/data: cache.memoize answers from the
\* cache when it holds an entry under the key of the call (the key is built
\* from repr(self) of the Resource made for the request, and the entry
\* lasts 300 s, so an entry that was stored may or may not be found); else
\* the body is built from the in-memory series and stored, and an empty
\* series is answered 404, which is not stored
Get(c) ==
    /\ pc = "idle"
    /\ server_up
    /\ \/ /\ cache[c].hit
          /\ response' = [cat |-> c, status |-> 200, body |-> cache[c].body]
          /\ UNCHANGED cache
       \/ /\ IsEmpty(sensor_data[c])
          /\ response' = [cat |-> c, status |-> 404, body |-> ToTimeSeries(EmptyFrame)]
          /\ UNCHANGED cache
       \/ /\ ~IsEmpty(sensor_data[c])
          /\ response' = [cat |-> c, status |-> 200,
                          body |-> ToTimeSeries(sensor_data[c])]
          /\ cache' = [cache EXCEPT ![c] =
                          [hit |-> TRUE, body |-> ToTimeSeries(sensor_data[c])]]
    /\ UNCHANGED <<saved, updated, env, output, metadata_out, server, pc, mode, d,
                   read_date, cat, groups_cols_ids, tasks, results,
                   all_dfs_sensors_day, list_all_data, list_all_old_data, failures,
                   counters, fetch_log, merged, prior, write_log>>

(* ---------------------------- specification ----------------------------- *)

Next ==
    \/ ScriptStart
    \/ LoadMetadataFail
    \/ Gather
    \/ \E i \in 1..NumHours : FetchOk(i)
    \/ \E i \in 1..NumHours : FetchFail(i)
    \/ Process
    \/ BackfillAppend
    \/ Combine
    \/ SaveOk
    \/ SaveFail
    \/ Statistics
    \/ Finish
    \/ ServerStart
    \/ PostStart
    \/ UpdateSkip
    \/ UpdateOk
    \/ UpdateFail
    \/ \E c \in Categories : Get(c)

Spec == Init /\ [][Next]_vars

(* ------------------------------- properties ----------------------------- *)

Labels(rows) == {rows[i].ts : i \in 1..Len(rows)}

RowSet(rows) == {rows[i] : i \in 1..Len(rows)}

Unique(rows) ==
    \A i, j \in 1..Len(rows) : rows[i].ts = rows[j].ts => i = j

StrictlyAscending(rows) ==
    \A i \in 1..(Len(rows) - 1) : rows[i].ts < rows[i + 1].ts

HasReadings(body) ==
    \E k \in 1..Len(body.sensors) : body.sensors[k].observations # <<>>

\* the day's fetches have returned to the caller
DayFetched == pc \in {"append", "combine", "update"}

\* the run has ended
RunEnded == pc \in {"done", "crashed", "aborted"}

\* C1: after a merge of a batch into an existing series (script and
\* endpoint), no two rows of the result have the same timestamp
C1_MergedLabelsUnique ==
    \A c \in Categories : merged[c].done => Unique(merged[c].res.rows)

\* C1 witness: a merge was done whose inputs repeat a timestamp, within the
\* existing series and between the existing series and the batch
C1_Witness ==
    \E c, c2 \in Categories :
       /\ merged[c].done
       /\ ~Unique(merged[c].old.rows)
       /\ merged[c2].done
       /\ Labels(merged[c2].old.rows) \cap Labels(merged[c2].new.rows) # {}

\* C2: when the batch has a timestamp the existing series has with another
\* value, the merged series holds the batch's values at that timestamp
C2_LatestFetchWins ==
    \A c \in Categories :
       merged[c].done =>
          \A new \in RowSet(merged[c].new.rows), old \in RowSet(merged[c].old.rows) :
             (new.ts = old.ts /\ new.rec # old.rec) =>
                \E r \in RowSet(merged[c].res.rows) :
                   /\ r.ts = new.ts
                   /\ \A s \in DOMAIN new.rec : s \in DOMAIN r.rec /\ r.rec[s] = new.rec[s]

\* C3: the series a run has written to the file of a category is in
\* strictly ascending order of timestamp
C3_PersistedAscending ==
    \A c \in Categories :
       write_log[c].status = "ok" => StrictlyAscending(output[c].rows)

\* C4: after an update (script or endpoint) the persisted series of a
\* category still has every row of the previously persisted series (one
\* without repeated timestamps) whose timestamp is not in the batch
C4_UpdateKeepsPersistedRows ==
    (pc = "done" /\ mode \in {"daily", "post"}) =>
       \A c \in Categories :
          (merged[c].done /\ Unique(prior[c].rows)) =>
             \A r \in RowSet(prior[c].rows) :
                r.ts \notin Labels(merged[c].new.rows) => r \in RowSet(output[c].rows)

\* C5: a sensor with no value in the fetched batch keeps, in the merged
\* series, every value it had in the existing series (one without repeated
\* timestamps), at the same timestamps
C5_AbsentSensorKeepsValues ==
    \A c \in Categories :
       (merged[c].done /\ Unique(merged[c].old.rows)) =>
          \A s \in merged[c].old.cols :
             (\A n \in RowSet(merged[c].new.rows) : s \notin DOMAIN n.rec) =>
                \A o \in RowSet(merged[c].old.rows) :
                   s \in DOMAIN o.rec =>
                      \E r \in RowSet(merged[c].res.rows) :
                         r.ts = o.ts /\ s \in DOMAIN r.rec /\ r.rec[s] = o.rec[s]

\* C6: when the day's fetches have returned, every category has been
\* fetched, a fetch that failed accounts for one bucket only, every bucket
\* fetched with readings has its row in the day's frame and a failed (or
\* empty) bucket has none
C6_FetchFailureIsolated ==
    DayFetched =>
       /\ Len(fetch_log) = NumTypes
       /\ Len(all_dfs_sensors_day) = NumTypes
       /\ \A i \in 1..NumTypes : \A h \in 1..NumHours :
             LET tr == TimeRanges(read_date)[h]
                 got == fetch_log[i].results[h]
             IN  /\ fetch_log[i].tasks[h] = "done" => got = upstream[h]
                 /\ fetch_log[i].tasks[h] = "failed" => got = None
                 /\ HasRow(all_dfs_sensors_day[i], tr)
                       <=> (fetch_log[i].tasks[h] = "done" /\ HasReadings(upstream[h]))

\* C6 witness: one bucket of a category failed and another bucket of the
\* same category has its row
C6_Witness ==
    /\ DayFetched
    /\ \E i \in 1..NumTypes : \E h, k \in 1..NumHours :
          /\ fetch_log[i].tasks[h] = "failed"
          /\ HasRow(all_dfs_sensors_day[i], TimeRanges(read_date)[k])

\* a frame is handed to to_csv for the category in this run
HasFrameToSave(c) ==
    \/ mode \in {"backfill", "daily"}
    \/ mode = "post" /\ Len(all_dfs_sensors_day) = NumTypes
                     /\ ~IsEmpty(all_dfs_sensors_day[TypeIndex(c)])

\* C7: when the write of one category has failed, every other category of
\* the run has still been saved when the run ends
C7_WriteFailureIsolated ==
    RunEnded =>
       \A c, c2 \in Categories :
          (write_log[c].status = "failed" /\ c2 # c /\ HasFrameToSave(c2)) =>
             write_log[c2].status = "ok"

\* C8: after a failed write the file of the category is the complete prior
\* file or the complete new series
C8_SaveAllOrNothing ==
    \A c \in Categories :
       write_log[c].status = "failed" =>
          output[c] \in {write_log[c].before, ToCsv(write_log[c].df)}

\* C9: merging an empty batch into an existing series (one without repeated
\* timestamps) leaves its rows as they were, in the same order
C9_EmptyBatchIsNoOp ==
    \A c \in Categories :
       (merged[c].done /\ merged[c].new.rows = <<>> /\ Unique(merged[c].old.rows)) =>
          merged[c].res.rows = merged[c].old.rows

\* C10: merging the batch once more into the merged series gives the merged
\* series again
C10_MergeIdempotent ==
    \A c \in Categories :
       merged[c].done =>
          \A again \in Merge(merged[c].res, merged[c].new) : again = merged[c].res

\* sensor ids that have a value in some row
Reported(rows) == UNION {DOMAIN rows[i].rec : i \in 1..Len(rows)}

\* C11 (as stated): the columns of a merged series are the columns of the
\* existing series and the sensor ids that have a value in an incoming row
C11_ColumnsAreReportedUnion ==
    \A c \in Categories :
       merged[c].done =>
          merged[c].res.cols = merged[c].old.cols \cup Reported(merged[c].new.rows)

\* C11 (amended): the columns of a merged series are the columns of the
\* existing series and the columns of the day's frame (the sensor ids of the
\* category's metadata and those the payloads reported); every timestamp of
\* either side is in the result, and every row of the result is an existing
\* row or an incoming row with its cells as they were, so an existing row
\* has no value in a column only the day's frame has and an incoming row
\* has no value where it reported none
C11_MergedColumnsUnion ==
    \A c \in Categories :
       merged[c].done =>
          /\ merged[c].res.cols = merged[c].old.cols \cup merged[c].new.cols
          /\ Labels(merged[c].res.rows) =
                Labels(merged[c].old.rows) \cup Labels(merged[c].new.rows)
          /\ \A r \in RowSet(merged[c].res.rows) :
                \/ r \in RowSet(merged[c].old.rows) /\ DOMAIN r.rec \subseteq merged[c].old.cols
                \/ r \in RowSet(merged[c].new.rows) /\ DOMAIN r.rec \subseteq merged[c].new.cols

\* C11 witness: a merge in which the day's frame brings a column the
\* existing series does not have, an existing row is kept, and an incoming
\* row without a value for an existing column is kept
C11_Witness ==
    \E c \in Categories :
       /\ merged[c].done
       /\ merged[c].new.cols \ merged[c].old.cols # {}
       /\ \E r \in RowSet(merged[c].res.rows) :
             r \in RowSet(merged[c].old.rows) /\ r \notin RowSet(merged[c].new.rows)
       /\ \E r \in RowSet(merged[c].res.rows) :
             /\ r \in RowSet(merged[c].new.rows)
             /\ merged[c].old.cols \ DOMAIN r.rec # {}

\* the values the frame holds for the sensor at the label
CellOf(df, t, s) ==
    {df.rows[k].rec[s] : k \in {j \in 1..Len(df.rows) :
                                   df.rows[j].ts = t /\ s \in DOMAIN df.rows[j].rec}}

\* the observation lists the body gives for the sensor
Observed(body, s) ==
    {body.sensors[k].observations :
        k \in {j \in 1..Len(body.sensors) : body.sensors[j].sensor = s}}

\* the sensor ids a frame or a body of the day may name
SensorIds ==
    UNION {MetadataIds[c] : c \in Categories}
       \cup UNION {{b.sensors[k].sensor : k \in 1..Len(b.sensors)} :
                     b \in {upstream[h] : h \in 1..NumHours}}

\* v is the mean of obs, to the 4th decimal (the unit of the values)
IsMeanOf(v, obs) ==
    LET diff == v * Len(obs) - Sum(obs)
    IN  2 * diff <= Len(obs) /\ 2 * diff >= 0 - Len(obs)

\* C12: when the day's fetches have returned, the frame of every category
\* holds a value for a sensor at a bucket exactly when the bucket was
\* fetched and its payload lists the sensor with at least one observation,
\* and then the value is the mean of these observations
C12_ValueIffObserved ==
    DayFetched =>
       \A i \in 1..NumTypes : \A h \in 1..NumHours : \A s \in SensorIds :
          LET cell == CellOf(all_dfs_sensors_day[i], TimeRanges(read_date)[h], s)
              obs == IF fetch_log[i].tasks[h] = "done"
                     THEN Observed(upstream[h], s) \ {<<>>} ELSE {}
          IN  /\ cell # {} <=> obs # {}
              /\ \A v \in cell : \E o \in obs : IsMeanOf(v, o)
              /\ Cardinality(cell) <= 1

\* C12 witness: a bucket whose payload gives the observations 10 and 12 for
\* a sensor holds 11 for it, and holds no value for a sensor the payload
\* does not list
C12_Witness ==
    /\ DayFetched
    /\ \E i \in 1..NumTypes : \E h \in 1..NumHours : \E s, s2 \in SensorIds :
          LET df == all_dfs_sensors_day[i]
              tr == TimeRanges(read_date)[h]
          IN  /\ Observed(upstream[h], s) = {<<100000, 120000>>}
              /\ CellOf(df, tr, s) = {110000}
              /\ Observed(upstream[h], s2) = {}
              /\ CellOf(df, tr, s2) = {}

\* C13: in an incremental update (script with an existing series, or the
\* endpoint) the requests issued for a category are one, for the midday
\* bucket of the last complete day
C13_SingleMiddayFetch ==
    (mode \in {"daily", "post"} /\ pc = "gather") =>
       /\ read_date = Today - 1
       /\ {h \in 1..NumHours : tasks[h] # "none"} = {h \in 1..NumHours : Hours[h] = 12}

\* C14: once a run of the script has saved the series of a category (and the
\* file is still as it was saved), a later run of the script loads that
\* series and does a daily update, not a backfill
C14_SavedSeriesIsLoaded ==
    \A c \in Categories :
       ( /\ mode \in {"backfill", "daily"}
         /\ pc \in {"session", "gather", "append", "combine"}
         /\ saved[c].exists
         /\ output[c] = saved[c] ) =>
          /\ mode = "daily"
          /\ list_all_old_data[c] = ReadCsv(saved[c])

\* C15: in an update run a category without sensor ids in the metadata is
\* skipped: no request is issued for it, no frame with rows is produced for
\* it and nothing is written to its file
C15_NoIdsCategorySkipped ==
    mode = "post" =>
       \A i \in 1..NumTypes :
          groups_cols_ids[i] = {} =>
             /\ ~(pc = "gather" /\ cat = i)
             /\ Len(all_dfs_sensors_day) >= i => all_dfs_sensors_day[i].rows = <<>>
             /\ write_log[SensorTypes[i]].status = "none"

\* C16: every batch that has been aggregated had all its fetches resolved,
\* with success or failure, when it was aggregated; while a fetch of a
\* batch is in flight the day's series of its category does not exist yet
C16_AggregatedAfterAllResolved ==
    /\ Len(all_dfs_sensors_day) = Len(fetch_log)
    /\ \A k \in 1..Len(fetch_log) : \A h \in 1..NumHours :
          fetch_log[k].tasks[h] \in {"done", "failed"}
    /\ (\E h \in 1..NumHours : tasks[h] = "inflight") =>
          pc = "gather" /\ Len(all_dfs_sensors_day) = cat - 1

\* C16 witness: a batch was aggregated after one of its fetches had failed
\* and the others had succeeded, and the next batch has fetches in flight
C16_Witness ==
    /\ Len(fetch_log) >= 1
    /\ \E h, k \in 1..NumHours :
          fetch_log[1].tasks[h] = "failed" /\ fetch_log[1].tasks[k] = "done"
    /\ \E h \in 1..NumHours : tasks[h] = "inflight"

\* the requests in flight
InFlight == {h \in 1..NumHours : tasks[h] = "inflight"}

\* C17: at every moment the requests in flight are at most 5
C17_AtMostFiveInFlight == Cardinality(InFlight) <= 5

\* C17 witness: during a run every bucket of a category has its request in
\* flight at the same moment, and the categories before it are done
C17_Witness ==
    /\ pc = "gather"
    /\ cat = NumTypes
    /\ Cardinality(InFlight) = NumHours

\* the run of the script ended while reading the existing series
LoadCrashed ==
    /\ mode = "daily"
    /\ pc = "crashed"
    /\ \A c \in Categories : write_log[c].status = "none"

\* C18: in a run of the script a category is updated incrementally exactly
\* when its own file exists, and the run does not end at the load because
\* the file of some category is missing
C18_ModeByOwnFile ==
    mode \in {"backfill", "daily"} =>
       /\ ~LoadCrashed
       /\ \A c \in Categories : mode = "daily" <=> dataset[c].exists

\* C19: a read of a category's data made after an update-data request that
\* ended well and merged the category is answered with the in-memory
\* series as the update left it, the newly fetched rows included
C19_ReadAfterUpdateIsMerged ==
    \A c \in Categories :
       (response.cat = c /\ updated[c]) =>
          /\ response.status = 200
          /\ response.body = ToTimeSeries(sensor_data[c])

====
